---- MODULE Spec2Model ----
(***************************************************************************)
(* dyn-timeout: a timeout whose delay can be extended (add), shortened     *)
(* (sub) or cancelled while it is pending.  Two implementations share the  *)
(* data model: std_thread::DynTimeout (a worker thread that sleeps) and    *)
(* tokio_impl::DynTimeout (a worker task whose timed wait races a          *)
(* single-slot interruption channel).                                      *)
(*                                                                         *)
(* One behaviour of this module is the life of one timer: Init picks the   *)
(* implementation, the completion action and the initial delay; the worker *)
(* and one owner (the holder of the handle) then interleave.               *)
(*                                                                         *)
(* Modelling decisions taken from the source:                              *)
(*  - `while let Some(dur) = thread_vec.lock()...pop() { wait }` keeps the *)
(*    MutexGuard temporary of the scrutinee alive until the end of the     *)
(*    loop body, so the worker owns the queue lock from the pop until the  *)
(*    sleep / timed wait of that segment is over.  When pop() returns None *)
(*    the guard is dropped as the loop is left.                            *)
(*  - std::sync::Mutex gives no ordering among contenders; tokio's Mutex   *)
(*    is FIFO: a release hands the lock to the longest waiting task.       *)
(*  - cancel and wait take &mut self, add and sub take &self: one owner    *)
(*    issues the calls one after the other.                                *)
(*  - Durations are natural numbers of abstract time units; the sum of the *)
(*    durations stays far below Duration::MAX.                             *)
(*  - The callback returns normally (it does not panic).  The external     *)
(*    channel of with_sender has room for the one message of the timer;    *)
(*    its receiver may be dropped by the environment at any time.          *)
(***************************************************************************)
EXTENDS Integers, Sequences, FiniteSets, TLC

\* Largest duration handed to new, add and sub.
MaxDur == 2
\* Number of calls the owner makes on the handle (add, sub, cancel, wait, drop).
MaxCalls == 3

Durs == 0..MaxDur

VARIABLES
    variant,      \* "std" (std_thread.rs) or "tokio" (tokio_impl.rs)
    action,       \* "callback" (new) or "sender" (with_sender)
    durations,    \* the Vec<Duration> behind the mutex; pop/push at the end
    cancelled,    \* the AtomicBool
    lock,         \* owner of the mutex: "free", "worker" or "owner"
    lock_q,       \* tokio Mutex: FIFO of tasks waiting for the lock
    w_pc,         \* position of the worker
    w_dur,        \* the segment the worker popped and is waiting on
    thread,       \* self.thread is Some(JoinHandle)
    sender,       \* handle side of the interruption channel is alive
    receiver,     \* worker side of the interruption channel is alive
    chan,         \* messages buffered in the interruption channel (capacity 1)
    tx,           \* worker side of the completion channel is alive
    rx,           \* handle side of the completion channel is alive
    done_chan,    \* messages buffered in the completion channel (capacity 1)
    ext_rx,       \* receiver of the channel given to with_sender is alive
    ext_chan,     \* messages delivered on the channel given to with_sender
    o_pc,         \* position of the owner inside its current call
    o_kind,       \* the current (or last) call of the owner
    o_arg,        \* its duration argument
    o_ret,        \* the result of the last finished call
    n_calls,      \* calls issued so far
    \* ---- history variables (observations, never read by the program) ----
    dur0,         \* the delay given to new
    fired,        \* invocations of the completion action
    waited,       \* total length of the segments waited out in full
    cut,          \* segment waits ended early by recv() on the interruption channel
    added,        \* total of the delays of the add calls that returned Ok
    n_sub,        \* sub calls issued
    c_at,         \* position of the worker when cancel() was first called
    c_wait,       \* cancel() was called during the wait the worker is in
    cancel_done,  \* some cancel() has returned
    o_at,         \* position of the worker when the current call was issued
    o_late,       \* the current call was issued after a fire or a finished cancel
    o_pre,        \* queue found by the current add/sub/cancel when it got the lock
    o_post,       \* queue left by it when it released the lock
    o_flag,       \* the flag before and after the locked part of the current call
    n_wait        \* wait() calls that have returned

prog == <<variant, action, durations, cancelled, lock, lock_q, w_pc, w_dur,
          thread, sender, receiver, chan, tx, rx, done_chan, ext_rx, ext_chan,
          o_pc, o_kind, o_arg, o_ret, n_calls>>
hist == <<dur0, fired, waited, cut, added, n_sub, c_at, c_wait, cancel_done,
          o_at, o_late, o_pre, o_post, o_flag, n_wait>>
vars == <<prog, hist>>

----------------------------------------------------------------------------
\* Helpers on the duration vector

Last(q) == q[Len(q)]
Front(q) == SubSeq(q, 1, Len(q) - 1)

RECURSIVE Sum(_)
Sum(q) == IF q = <<>> THEN 0 ELSE Last(q) + Sum(Front(q))

Max(a, b) == IF a >= b THEN a ELSE b

\* Variant of SubLoop whose guard is len() > 0: it may pop the last segment.
RECURSIVE SubLoopPopsAnchor(_, _, _)
SubLoopPopsAnchor(q, pop_dur, dur) ==
    IF pop_dur < dur /\ Len(q) > 0
    THEN SubLoopPopsAnchor(Front(q), pop_dur + Last(q), dur)
    ELSE <<q, pop_dur>>

\* while pop_dur < dur && durations.len() > 1 { pop_dur += durations.pop().unwrap(); }
RECURSIVE SubLoop(_, _, _)
SubLoop(q, pop_dur, dur) ==
    IF pop_dur < dur /\ Len(q) > 1
    THEN SubLoop(Front(q), pop_dur + Last(q), dur)
    ELSE <<q, pop_dur>>

\* Variant of SubQueue that forgets to push the excess back.
SubQueueNoPushBack(q, dur) == SubLoop(q, 0, dur)[1]

\* if pop_dur > dur { durations.push(pop_dur - dur); }
SubQueue(q, dur) ==
    LET r == SubLoop(q, 0, dur)
    IN  IF r[2] > dur THEN Append(r[1], r[2] - dur) ELSE r[1]

\* The body of sub(dur) under the lock: <<result, queue left behind>>.
sub(q, dur) ==
    IF q = <<>> THEN <<"already", q>> ELSE <<"ok", SubQueue(q, dur)>>

\* Variant of add that pushes before it tests is_empty().
add_push_first(q, dur) ==
    <<IF q = <<>> THEN "already" ELSE "ok", Append(q, dur)>>

\* Variant of add without the is_empty() test.
add_unchecked(q, dur) == <<"ok", Append(q, dur)>>

\* The body of add(dur) under the lock: <<result, queue left behind>>.
add(q, dur) ==
    IF q = <<>> THEN <<"already", q>> ELSE <<"ok", Append(q, dur)>>

----------------------------------------------------------------------------
\* The mutex

\* The lock can be taken at once by a caller that is not queued.
LockAvailable == lock = "free" /\ lock_q = <<>>

\* Dropping the guard: tokio hands the lock to the first waiter.
LockAfterRelease == IF lock_q # <<>> THEN Head(lock_q) ELSE "free"
QueueAfterRelease == IF lock_q # <<>> THEN Tail(lock_q) ELSE <<>>

\* Variant of Seed without the zero-length anchor.
SeedNoAnchor(dur) == <<dur>>

\* vec![Duration::ZERO, dur]
Seed(dur) == <<0, dur>>

----------------------------------------------------------------------------
Init ==
    /\ variant \in {"std", "tokio"}
    /\ action \in {"callback", "sender"}
    /\ variant = "std" => action = "callback"
    /\ dur0 \in Durs
    /\ durations = Seed(dur0)
    /\ cancelled = FALSE
    /\ lock = "free"
    /\ lock_q = <<>>
    /\ w_pc = "lock"
    /\ w_dur = 0
    /\ thread = TRUE
    /\ sender = (variant = "tokio")
    /\ receiver = (variant = "tokio")
    /\ chan = 0
    /\ tx = (variant = "tokio")
    /\ rx = (variant = "tokio")
    /\ done_chan = 0
    /\ ext_rx = (action = "sender")
    /\ ext_chan = 0
    /\ o_pc = "idle"
    /\ o_kind = "none"
    /\ o_arg = 0
    /\ o_ret = "none"
    /\ n_calls = 0
    /\ fired = 0
    /\ waited = 0
    /\ cut = 0
    /\ added = 0
    /\ n_sub = 0
    /\ c_at = "none"
    /\ c_wait = FALSE
    /\ cancel_done = FALSE
    /\ o_at = "none"
    /\ o_late = FALSE
    /\ o_pre = <<>>
    /\ o_post = <<>>
    /\ o_flag = <<FALSE, FALSE>>
    /\ n_wait = 0

----------------------------------------------------------------------------
\* The worker

\* The worker owns the lock and evaluates `.pop()`.
WorkerPop ==
    IF durations = <<>>
    THEN /\ w_pc' = "decide"
         /\ lock' = LockAfterRelease
         /\ lock_q' = QueueAfterRelease
         /\ UNCHANGED <<durations, w_dur>>
    ELSE /\ w_pc' = "wait"
         /\ w_dur' = Last(durations)
         /\ durations' = Front(durations)
         /\ lock' = "worker"
         /\ UNCHANGED lock_q

\* thread_vec.lock(): take the free lock and pop, or (tokio) join the queue.
WorkerLock ==
    /\ w_pc = "lock"
    /\ IF LockAvailable
       THEN WorkerPop
       ELSE /\ variant = "tokio"
            /\ w_pc' = "lockq"
            /\ lock_q' = Append(lock_q, "worker")
            /\ UNCHANGED <<durations, w_dur, lock>>
    /\ UNCHANGED <<variant, action, cancelled, thread, sender, receiver, chan,
                   tx, rx, done_chan, ext_rx, ext_chan, o_pc, o_kind, o_arg,
                   o_ret, n_calls, hist>>

\* tokio: the lock was handed to the queued worker.
WorkerGranted ==
    /\ w_pc = "lockq"
    /\ lock = "worker"
    /\ WorkerPop
    /\ UNCHANGED <<variant, action, cancelled, thread, sender, receiver, chan,
                   tx, rx, done_chan, ext_rx, ext_chan, o_pc, o_kind, o_arg,
                   o_ret, n_calls, hist>>

\* Variant of RecvReady in which recv() resolves at once, as it would if the
\* handle did not keep its sender.
RecvReadyAtOnce == variant = "tokio"

\* receiver.recv() is ready: a message is buffered or every sender is gone.
RecvReady == variant = "tokio" /\ (chan > 0 \/ ~sender)

\* thread::sleep(dur) returns, or the timeout elapses with recv() pending.
\* The guard is dropped at the end of the loop body.
WorkerExpire ==
    /\ w_pc = "wait"
    /\ ~RecvReady
    /\ w_pc' = "lock"
    /\ lock' = LockAfterRelease
    /\ lock_q' = QueueAfterRelease
    /\ waited' = waited + w_dur
    /\ c_wait' = FALSE
    /\ UNCHANGED <<variant, action, durations, cancelled, w_dur, thread,
                   sender, receiver, chan, tx, rx, done_chan, ext_rx, ext_chan,
                   o_pc, o_kind, o_arg, o_ret, n_calls>>
    /\ UNCHANGED <<dur0, fired, cut, added, n_sub, c_at, cancel_done, o_at,
                   o_late, o_pre, o_post, o_flag, n_wait>>

\* tokio::time::timeout polls recv() first: it wins whenever it is ready.
WorkerRecvWake ==
    /\ w_pc = "wait"
    /\ RecvReady
    /\ w_pc' = "lock"
    /\ chan' = IF chan > 0 THEN chan - 1 ELSE chan
    /\ lock' = LockAfterRelease
    /\ lock_q' = QueueAfterRelease
    /\ cut' = cut + 1
    /\ c_wait' = FALSE
    /\ UNCHANGED <<variant, action, durations, cancelled, w_dur, thread,
                   sender, receiver, tx, rx, done_chan, ext_rx, ext_chan,
                   o_pc, o_kind, o_arg, o_ret, n_calls>>
    /\ UNCHANGED <<dur0, fired, waited, added, n_sub, c_at, cancel_done, o_at,
                   o_late, o_pre, o_post, o_flag, n_wait>>

\* Variant of RunsAction with the test of std_thread.rs in both files.
RunsActionWhenCancelled(v, flag) == flag

\* The test on the flag that guards the completion action.
\* std_thread.rs:62   if thread_cancelled.load(Ordering::Relaxed)
\* tokio_impl.rs:79   if !thread_cancelled.load(Ordering::Relaxed)
RunsAction(v, flag) == IF v = "std" THEN flag ELSE ~flag

\* The fire decision: one load of the flag after the loop.
WorkerDecide ==
    /\ w_pc = "decide"
    /\ w_pc' = IF RunsAction(variant, cancelled) THEN "action"
               ELSE IF variant = "std" THEN "done" ELSE "signal"
    /\ UNCHANGED <<variant, action, durations, cancelled, lock, lock_q, w_dur,
                   thread, sender, receiver, chan, tx, rx, done_chan, ext_rx,
                   ext_chan, o_pc, o_kind, o_arg, o_ret, n_calls, hist>>

\* callback(), or sender_in.send(()).await.unwrap()
WorkerAction ==
    /\ w_pc = "action"
    /\ fired' = fired + 1
    /\ IF action = "sender" /\ ~ext_rx
       THEN \* the send fails and unwrap panics: the task is torn down
            /\ w_pc' = "panicked"
            /\ receiver' = FALSE
            /\ tx' = FALSE
            /\ UNCHANGED ext_chan
       ELSE /\ w_pc' = IF variant = "std" THEN "done" ELSE "signal"
            /\ ext_chan' = IF action = "sender" THEN ext_chan + 1 ELSE ext_chan
            /\ UNCHANGED <<receiver, tx>>
    /\ UNCHANGED <<variant, action, durations, cancelled, lock, lock_q, w_dur,
                   thread, sender, chan, rx, done_chan, ext_rx,
                   o_pc, o_kind, o_arg, o_ret, n_calls>>
    /\ UNCHANGED <<dur0, waited, cut, added, n_sub, c_at, c_wait, cancel_done,
                   o_at, o_late, o_pre, o_post, o_flag, n_wait>>

\* tx.send(()).await.unwrap()
WorkerSignal ==
    /\ w_pc = "signal"
    /\ IF rx
       THEN /\ w_pc' = "exit"
            /\ done_chan' = done_chan + 1
            /\ UNCHANGED <<receiver, tx>>
       ELSE /\ w_pc' = "panicked"
            /\ receiver' = FALSE
            /\ tx' = FALSE
            /\ UNCHANGED done_chan
    /\ UNCHANGED <<variant, action, durations, cancelled, lock, lock_q, w_dur,
                   thread, sender, chan, rx, ext_rx, ext_chan,
                   o_pc, o_kind, o_arg, o_ret, n_calls, hist>>

\* The task's future completes: its captures (receiver, tx) are dropped.
WorkerExit ==
    /\ w_pc = "exit"
    /\ w_pc' = "done"
    /\ receiver' = FALSE
    /\ tx' = FALSE
    /\ UNCHANGED <<variant, action, durations, cancelled, lock, lock_q, w_dur,
                   thread, sender, chan, rx, done_chan, ext_rx, ext_chan,
                   o_pc, o_kind, o_arg, o_ret, n_calls, hist>>

\* The environment drops the receiver of the channel given to with_sender.
ExtDrop ==
    /\ ext_rx
    /\ ext_rx' = FALSE
    /\ UNCHANGED <<variant, action, durations, cancelled, lock, lock_q, w_pc,
                   w_dur, thread, sender, receiver, chan, tx, rx, done_chan,
                   ext_chan, o_pc, o_kind, o_arg, o_ret, n_calls, hist>>

----------------------------------------------------------------------------
\* The owner of the handle

\* Bookkeeping common to the start of every call.
Issue(kind, arg) ==
    /\ o_pc = "idle"
    /\ n_calls < MaxCalls
    /\ n_calls' = n_calls + 1
    /\ o_kind' = kind
    /\ o_arg' = arg
    /\ o_ret' = "pending"
    /\ o_at' = w_pc
    /\ o_late' = (fired > 0 \/ cancel_done)
    /\ o_pre' = <<>>
    /\ o_post' = <<>>
    /\ o_flag' = <<cancelled, cancelled>>

\* add(dur) is called: next it asks for the lock.
CallAdd(dur) ==
    /\ Issue("add", dur)
    /\ o_pc' = "lock"
    /\ UNCHANGED <<variant, action, durations, cancelled, lock, lock_q, w_pc,
                   w_dur, thread, sender, receiver, chan, tx, rx, done_chan,
                   ext_rx, ext_chan>>
    /\ UNCHANGED <<dur0, fired, waited, cut, added, n_sub, c_at, c_wait,
                   cancel_done, n_wait>>

\* sub(dur) is called: next it asks for the lock.
CallSub(dur) ==
    /\ Issue("sub", dur)
    /\ o_pc' = "lock"
    /\ n_sub' = n_sub + 1
    /\ UNCHANGED <<variant, action, durations, cancelled, lock, lock_q, w_pc,
                   w_dur, thread, sender, receiver, chan, tx, rx, done_chan,
                   ext_rx, ext_chan>>
    /\ UNCHANGED <<dur0, fired, waited, cut, added, c_at, c_wait, cancel_done, n_wait>>

\* cancel() is called.  tokio stores the flag before it asks for the lock,
\* std stores it once it owns the lock.
CallCancel ==
    /\ Issue("cancel", 0)
    /\ o_pc' = "lock"
    /\ cancelled' = IF variant = "tokio" THEN TRUE ELSE cancelled
    /\ c_at' = IF c_at = "none" THEN w_pc ELSE c_at
    /\ c_wait' = (w_pc = "wait")
    /\ UNCHANGED <<variant, action, durations, lock, lock_q, w_pc,
                   w_dur, thread, sender, receiver, chan, tx, rx, done_chan,
                   ext_rx, ext_chan>>
    /\ UNCHANGED <<dur0, fired, waited, cut, added, n_sub, cancel_done, n_wait>>

\* wait() is called (tokio only).
CallWait ==
    /\ variant = "tokio"
    /\ Issue("wait", 0)
    /\ o_pc' = "recv"
    /\ UNCHANGED <<variant, action, durations, cancelled, lock, lock_q, w_pc,
                   w_dur, thread, sender, receiver, chan, tx, rx, done_chan,
                   ext_rx, ext_chan>>
    /\ UNCHANGED <<dur0, fired, waited, cut, added, n_sub, c_at, c_wait,
                   cancel_done, n_wait>>

\* The handle goes out of scope.  std: Drop::drop joins the worker.
\* tokio: the fields are dropped (sender, receiver `rx`, the JoinHandle).
DropHandle ==
    /\ Issue("drop", 0)
    /\ IF variant = "std"
       THEN /\ o_pc' = "join"
            /\ UNCHANGED <<sender, rx, thread>>
       ELSE /\ o_pc' = "dropped"
            /\ sender' = FALSE
            /\ rx' = FALSE
            /\ thread' = FALSE
    /\ UNCHANGED <<variant, action, durations, cancelled, lock, lock_q, w_pc,
                   w_dur, receiver, chan, tx, done_chan, ext_rx, ext_chan>>
    /\ UNCHANGED <<dur0, fired, waited, cut, added, n_sub, c_at, c_wait,
                   cancel_done, n_wait>>

\* The part of add / sub / cancel executed while the owner holds the lock,
\* up to the drop of the guard.
Perform ==
    /\ lock' = LockAfterRelease
    /\ lock_q' = QueueAfterRelease
    /\ CASE o_kind = "add" ->
              /\ o_ret' = add(durations, o_arg)[1]
              /\ durations' = add(durations, o_arg)[2]
              /\ added' = IF o_ret' = "ok" THEN added + o_arg ELSE added
              /\ o_pc' = "idle"
              /\ UNCHANGED cancelled
         [] o_kind = "sub" ->
              /\ o_ret' = sub(durations, o_arg)[1]
              /\ durations' = sub(durations, o_arg)[2]
              /\ o_pc' = "idle"
              /\ UNCHANGED <<cancelled, added>>
         [] o_kind = "cancel" ->
              /\ durations' = <<>>
              /\ cancelled' = IF variant = "std" THEN TRUE ELSE cancelled
              /\ o_pc' = IF variant = "std" THEN "join" ELSE "send"
              /\ UNCHANGED <<o_ret, added>>
    /\ o_pre' = durations
    /\ o_post' = durations'
    /\ o_flag' = <<cancelled, cancelled'>>

\* self.durations.lock(): take the free lock, or (tokio) join the queue.
OwnerLock ==
    /\ o_pc = "lock"
    /\ IF LockAvailable
       THEN Perform
       ELSE /\ variant = "tokio"
            /\ o_pc' = "lockq"
            /\ lock_q' = Append(lock_q, "owner")
            /\ UNCHANGED <<durations, cancelled, lock, o_ret, added, o_pre,
                           o_post, o_flag>>
    /\ UNCHANGED <<variant, action, w_pc, w_dur, thread, sender, receiver,
                   chan, tx, rx, done_chan, ext_rx, ext_chan, o_kind, o_arg,
                   n_calls>>
    /\ UNCHANGED <<dur0, fired, waited, cut, n_sub, c_at, c_wait, cancel_done,
                   o_at, o_late, n_wait>>

\* tokio: the lock was handed to the queued owner.
OwnerGranted ==
    /\ o_pc = "lockq"
    /\ lock = "owner"
    /\ Perform
    /\ UNCHANGED <<variant, action, w_pc, w_dur, thread, sender, receiver,
                   chan, tx, rx, done_chan, ext_rx, ext_chan, o_kind, o_arg,
                   n_calls>>
    /\ UNCHANGED <<dur0, fired, waited, cut, n_sub, c_at, c_wait, cancel_done,
                   o_at, o_late, n_wait>>

\* Variant of CancelSend that drops the result of the send
\* (`let _ = self.sender.send(()).await;`).
CancelSendIgnoreErr ==
    /\ o_pc = "send"
    /\ receiver => chan = 0
    /\ chan' = IF receiver THEN 1 ELSE chan
    /\ thread' = FALSE
    /\ o_ret' = "ok"
    /\ o_pc' = "idle"
    /\ cancel_done' = TRUE
    /\ UNCHANGED <<variant, action, durations, cancelled, lock, lock_q, w_pc,
                   w_dur, sender, receiver, tx, rx, done_chan, ext_rx,
                   ext_chan, o_kind, o_arg, n_calls>>
    /\ UNCHANGED <<dur0, fired, waited, cut, added, n_sub, c_at, c_wait,
                   o_at, o_late, o_pre, o_post, o_flag, n_wait>>

\* tokio cancel: self.sender.send(()).await?; self.thread = None; Ok(())
\* The send fails once the worker's receiver is dropped, and waits while
\* the single slot is taken.
CancelSend ==
    /\ o_pc = "send"
    /\ IF ~receiver
       THEN /\ o_ret' = "send_err"
            /\ UNCHANGED <<chan, thread>>
       ELSE /\ chan = 0
            /\ chan' = 1
            /\ thread' = FALSE
            /\ o_ret' = "ok"
    /\ o_pc' = "idle"
    /\ cancel_done' = TRUE
    /\ UNCHANGED <<variant, action, durations, cancelled, lock, lock_q, w_pc,
                   w_dur, sender, receiver, tx, rx, done_chan, ext_rx,
                   ext_chan, o_kind, o_arg, n_calls>>
    /\ UNCHANGED <<dur0, fired, waited, cut, added, n_sub, c_at, c_wait,
                   o_at, o_late, o_pre, o_post, o_flag, n_wait>>

\* Variant of Join that takes the JoinHandle without joining it.
JoinNoWait ==
    /\ o_pc = "join"
    /\ thread' = FALSE
    /\ IF o_kind = "cancel"
       THEN /\ o_pc' = "idle"
            /\ o_ret' = "ok"
            /\ cancel_done' = TRUE
       ELSE /\ o_pc' = "dropped"
            /\ o_ret' = "ok"
            /\ UNCHANGED cancel_done
    /\ UNCHANGED <<variant, action, durations, cancelled, lock, lock_q, w_pc,
                   w_dur, sender, receiver, chan, tx, rx, done_chan, ext_rx,
                   ext_chan, o_kind, o_arg, n_calls>>
    /\ UNCHANGED <<dur0, fired, waited, cut, added, n_sub, c_at, c_wait,
                   o_at, o_late, o_pre, o_post, o_flag, n_wait>>

\* std: self.join() from cancel or from Drop::drop.  It returns at once when
\* self.thread is None, and otherwise when the worker thread has finished.
Join ==
    /\ o_pc = "join"
    /\ ~thread \/ w_pc = "done"
    /\ thread' = FALSE
    /\ IF o_kind = "cancel"
       THEN /\ o_pc' = "idle"
            /\ o_ret' = "ok"
            /\ cancel_done' = TRUE
       ELSE /\ o_pc' = "dropped"
            /\ o_ret' = "ok"
            /\ UNCHANGED cancel_done
    /\ UNCHANGED <<variant, action, durations, cancelled, lock, lock_q, w_pc,
                   w_dur, sender, receiver, chan, tx, rx, done_chan, ext_rx,
                   ext_chan, o_kind, o_arg, n_calls>>
    /\ UNCHANGED <<dur0, fired, waited, cut, added, n_sub, c_at, c_wait,
                   o_at, o_late, o_pre, o_post, o_flag, n_wait>>

\* Variant of WaitRecv that returns without receiving.
WaitRecvAtOnce ==
    /\ o_pc = "recv"
    /\ done_chan' = IF done_chan > 0 THEN done_chan - 1 ELSE done_chan
    /\ o_pc' = "idle"
    /\ o_ret' = "ok"
    /\ n_wait' = n_wait + 1
    /\ UNCHANGED <<variant, action, durations, cancelled, lock, lock_q, w_pc,
                   w_dur, thread, sender, receiver, chan, tx, rx, ext_rx,
                   ext_chan, o_kind, o_arg, n_calls>>
    /\ UNCHANGED <<dur0, fired, waited, cut, added, n_sub, c_at, c_wait,
                   cancel_done, o_at, o_late, o_pre, o_post, o_flag>>

\* Variant of WaitRecv whose recv() does not notice that tx is gone.
WaitRecvNoClose ==
    /\ o_pc = "recv"
    /\ done_chan > 0
    /\ done_chan' = IF done_chan > 0 THEN done_chan - 1 ELSE done_chan
    /\ o_pc' = "idle"
    /\ o_ret' = "ok"
    /\ n_wait' = n_wait + 1
    /\ UNCHANGED <<variant, action, durations, cancelled, lock, lock_q, w_pc,
                   w_dur, thread, sender, receiver, chan, tx, rx, ext_rx,
                   ext_chan, o_kind, o_arg, n_calls>>
    /\ UNCHANGED <<dur0, fired, waited, cut, added, n_sub, c_at, c_wait,
                   cancel_done, o_at, o_late, o_pre, o_post, o_flag>>

\* tokio wait: self.receiver.recv().await; Ok(())
\* recv() yields the buffered message, or None once tx is dropped.
WaitRecv ==
    /\ o_pc = "recv"
    /\ done_chan > 0 \/ ~tx
    /\ done_chan' = IF done_chan > 0 THEN done_chan - 1 ELSE done_chan
    /\ o_pc' = "idle"
    /\ o_ret' = "ok"
    /\ n_wait' = n_wait + 1
    /\ UNCHANGED <<variant, action, durations, cancelled, lock, lock_q, w_pc,
                   w_dur, thread, sender, receiver, chan, tx, rx, ext_rx,
                   ext_chan, o_kind, o_arg, n_calls>>
    /\ UNCHANGED <<dur0, fired, waited, cut, added, n_sub, c_at, c_wait,
                   cancel_done, o_at, o_late, o_pre, o_post, o_flag>>

----------------------------------------------------------------------------
Next ==
    \/ WorkerLock
    \/ WorkerGranted
    \/ WorkerExpire
    \/ WorkerRecvWake
    \/ WorkerDecide
    \/ WorkerAction
    \/ WorkerSignal
    \/ WorkerExit
    \/ ExtDrop
    \/ \E dur \in Durs : CallAdd(dur)
    \/ \E dur \in Durs : CallSub(dur)
    \/ CallCancel
    \/ CallWait
    \/ DropHandle
    \/ OwnerLock
    \/ OwnerGranted
    \/ CancelSend
    \/ Join
    \/ WaitRecv

Spec == Init /\ [][Next]_vars

\* Every started thread or task keeps being scheduled, time passes, and a
\* call that was issued runs on as soon as it is not blocked.  Whether the
\* owner issues a further call is left open.
Fairness ==
    /\ WF_vars(WorkerLock)
    /\ WF_vars(WorkerGranted)
    /\ WF_vars(WorkerExpire)
    /\ WF_vars(WorkerRecvWake)
    /\ WF_vars(WorkerDecide)
    /\ WF_vars(WorkerAction)
    /\ WF_vars(WorkerSignal)
    /\ WF_vars(WorkerExit)
    /\ WF_vars(OwnerLock)
    /\ WF_vars(OwnerGranted)
    /\ WF_vars(CancelSend)
    /\ WF_vars(Join)
    /\ WF_vars(WaitRecv)

FairSpec == Spec /\ Fairness

\* The values the variables range over.
TypeOK ==
    /\ variant \in {"std", "tokio"}
    /\ action \in {"callback", "sender"}
    /\ durations \in Seq(Nat)
    /\ cancelled \in BOOLEAN
    /\ lock \in {"free", "worker", "owner"}
    /\ w_pc \in {"lock", "lockq", "wait", "decide", "action", "signal",
                 "exit", "done", "panicked"}
    /\ o_pc \in {"idle", "lock", "lockq", "send", "join", "recv", "dropped"}
    /\ o_ret \in {"none", "pending", "ok", "already", "send_err"}
    /\ chan \in 0..1
    /\ done_chan \in 0..1
    /\ ext_chan \in 0..1
    /\ n_calls \in 0..MaxCalls

----------------------------------------------------------------------------
\* Vocabulary of the properties

\* The worker has not yet found the queue empty.
Draining(pc) == pc \in {"lock", "lockq", "wait"}
\* The worker has not yet made its fire decision.
Undecided(pc) == pc \in {"lock", "lockq", "wait", "decide"}
\* The worker is past its fire decision and past the action, if it ran one.
Decided(pc) == pc \in {"signal", "exit", "done", "panicked"}
\* The worker thread or task is over.
Terminal(pc) == pc \in {"done", "panicked"}
\* The owner still holds the handle and never called cancel().
AliveNoCancel == c_at = "none" /\ o_kind # "drop"
\* The last call of the owner has returned.
Returned == o_pc = "idle" /\ o_ret \in {"ok", "already", "send_err"}

----------------------------------------------------------------------------
\* C1 (std_thread): a timer on which cancel() is never called has invoked
\* its callback exactly once by the time the worker thread terminates.
C1_StdFiresOnce ==
    (variant = "std" /\ c_at = "none" /\ w_pc = "done") => fired = 1

\* C2 (std_thread): when cancel() is called before the worker has found the
\* queue empty, the callback is never invoked.
C2_StdCancelPreventsFire ==
    (variant = "std" /\ Draining(c_at)) => fired = 0

\* C3 (tokio_impl): with the handle alive and no cancel(), the completion
\* action is invoked at most once, only with the queue drained and every
\* popped segment waited out in full, and it is eventually invoked.
C3_TokioFiresOnce ==
    /\ [](variant = "tokio" /\ AliveNoCancel =>
            /\ fired <= 1
            /\ fired = 1 => (durations = <<>> /\ cut = 0 /\ Decided(w_pc)))
    /\ (variant = "tokio" => <>(fired = 1 \/ ~AliveNoCancel))

\* C3 witness: a tokio timer with a non-zero total delay fired exactly once
\* and its task is over, without cancel() and with the handle alive.
C3_Witness ==
    /\ variant = "tokio" /\ AliveNoCancel
    /\ fired = 1 /\ w_pc = "done" /\ waited > 0 /\ added > 0

\* C4 (tokio_impl): when cancel() is called before the worker has found the
\* queue empty, the completion action is never invoked.
C4_TokioCancelPreventsFire ==
    (variant = "tokio" /\ Draining(c_at)) => fired = 0

\* C4 witness: cancel() came after a successful add() while the worker was
\* waiting on a segment; the task is over and the action did not run.
C4_Witness ==
    /\ variant = "tokio" /\ c_at = "wait" /\ added > 0
    /\ w_pc = "done" /\ fired = 0

\* C5 (both variants): without cancel() and sub() and with the handle alive,
\* the worker reaches its fire decision having waited out exactly the initial
\* delay plus the delays of the successful add() calls, and once it is past
\* the decision the action has fired exactly once.
C5_ExtensionExact ==
    (AliveNoCancel /\ n_sub = 0) =>
        /\ w_pc \in {"decide", "action"} \/ Decided(w_pc) =>
              waited = dur0 + added
        /\ Decided(w_pc) => fired = 1

\* Part of C5 that does not depend on the fire decision: the total waited
\* out at the fire decision is the initial delay plus the successful adds.
ExtensionSum ==
    (AliveNoCancel /\ n_sub = 0 /\ ~Draining(w_pc)) => waited = dur0 + added

\* C6 (both variants): sub(S) on a non-empty queue of total T returns Ok and
\* leaves a non-empty queue of total max(T - S, 0); it removes at most S.
C6_SubExact ==
    (o_kind = "sub" /\ Returned /\ o_pre # <<>>) =>
        /\ o_ret = "ok"
        /\ o_post # <<>>
        /\ Sum(o_post) = Max(Sum(o_pre) - o_arg, 0)
        /\ Sum(o_pre) - Sum(o_post) <= o_arg

\* C6 witness: sub(2) on [0, 2, 1] popped two segments (3 in total) and
\* pushed the excess 1 back.
C6_Witness ==
    /\ o_kind = "sub" /\ Returned /\ o_arg = 2
    /\ o_pre = <<0, 2, 1>> /\ o_post = <<0, 1>>

\* C7 (both variants): add and sub return "Timeout already reached" exactly
\* when they find the queue empty; then they leave the queue and the flag as
\* they were; a call issued after a fire or after a finished cancel() fails.
C7_AlreadyFired ==
    (o_kind \in {"add", "sub"} /\ Returned) =>
        /\ o_ret = "already" <=> o_pre = <<>>
        /\ o_ret = "already" => (o_post = o_pre /\ o_flag[2] = o_flag[1])
        /\ o_late => o_ret = "already"

\* C7 witness: an add() issued after the action ran was rejected.
C7_Witness ==
    /\ o_kind = "add" /\ Returned /\ o_late /\ fired = 1
    /\ o_ret = "already" /\ durations = <<>>

\* C8 as stated (tokio_impl): cancel() called after the worker invoked the
\* action and terminated returns Ok, and the action is not invoked again.
C8_CancelAfterFireOk ==
    (variant = "tokio" /\ o_kind = "cancel" /\ Returned
        /\ Terminal(o_at) /\ fired >= 1) =>
        (o_ret = "ok" /\ fired = 1)

\* C8 as amended (tokio_impl): cancel() called after the worker invoked the
\* action and terminated returns the error of the failed send on the
\* interruption channel, and the action is not invoked again.
C8_CancelAfterFireErr ==
    (variant = "tokio" /\ o_kind = "cancel" /\ Returned
        /\ Terminal(o_at) /\ fired >= 1) =>
        (o_ret = "send_err" /\ fired = 1)

\* C8 witness: cancel() was called with the task over after a fire, and
\* has returned.
C8_Witness ==
    /\ variant = "tokio" /\ o_kind = "cancel" /\ Returned
    /\ o_at = "done" /\ fired = 1 /\ o_ret = "send_err"

\* C9 (tokio_impl): cancel() called before the worker's fire decision
\* returns Ok in every interleaving.
C9_CancelPendingOk ==
    (variant = "tokio" /\ o_kind = "cancel" /\ Returned /\ Undecided(o_at)) =>
        o_ret = "ok"

\* C10 (tokio_impl): a timed wait during which cancel() was called is ended
\* by the interruption signal, not by the expiry of the segment.
C10_FastCancel ==
    [][(variant = "tokio" /\ w_pc = "wait" /\ w_dur > 0 /\ c_wait
           /\ w_pc' # "wait") => cut' = cut + 1]_vars

\* What the code does instead: no message is ever buffered while the worker
\* waits, and a cancel() that arrived during a wait is still short of its
\* send when that wait ends.
NoSignalDuringWait ==
    /\ (w_pc = "wait" => chan = 0)
    /\ (c_wait => o_kind = "cancel" /\ o_pc \in {"lock", "lockq"})

----------------------------------------------------------------------------
\* C11 (std_thread): when cancel() has returned or the drop of the handle is
\* complete, the worker thread is over; and cancel() or drop on a handle
\* whose worker is already over is never blocked (neither on the lock nor in
\* join) and ends without error.
C11_StdJoin ==
    variant = "std" =>
        /\ (o_kind = "cancel" /\ Returned) => w_pc = "done"
        /\ o_pc = "dropped" => w_pc = "done"
        /\ (o_kind \in {"cancel", "drop"} /\ w_pc = "done") =>
              /\ o_pc = "lock" => (LockAvailable /\ ENABLED OwnerLock)
              /\ o_pc = "join" => ENABLED Join
              /\ Returned => o_ret = "ok"

\* C11 witness: cancel() was called while the worker slept on a segment and
\* has returned after the thread ended; the handle was then dropped.
C11_Witness ==
    /\ variant = "std" /\ c_at = "wait" /\ cancel_done
    /\ o_kind = "drop" /\ o_pc = "dropped" /\ w_pc = "done"

\* C12 (tokio_impl): when cancel() has returned Ok the worker task is past
\* its completion send (it has left the loop, decided and signalled).
C12_TokioCancelJoins ==
    (variant = "tokio" /\ o_kind = "cancel" /\ Returned /\ o_ret = "ok") =>
        w_pc \in {"exit", "done"}

\* C13 (tokio_impl): wait() returns only with the worker past its fire
\* decision and past the action, if it ran one; a wait() pending when the
\* task is over returns; wait() leaves the queue and the flag as they are.
C13_Wait ==
    /\ []((variant = "tokio" /\ o_kind = "wait" /\ Returned) =>
             w_pc \in {"exit", "done", "panicked"})
    /\ []((o_pc = "recv" /\ Terminal(w_pc)) => <>(o_kind = "wait" /\ Returned))
    /\ [][((o_pc = "idle" /\ o_pc' = "recv") \/ (o_pc = "recv" /\ o_pc' = "idle"))
             => (durations' = durations /\ cancelled' = cancelled)]_vars

\* C13 witness: a wait() issued while the worker was waiting on a segment
\* returned after the action had run.
C13_Witness ==
    /\ variant = "tokio" /\ o_kind = "wait" /\ Returned
    /\ o_at = "wait" /\ fired = 1 /\ n_wait = 1

----------------------------------------------------------------------------
\* C14 (tokio_impl): when the handle is dropped while the timer is pending
\* and cancel() was never called, the worker waits out every remaining
\* segment in full, invokes the action exactly once and ends normally.
C14_DropRunsToCompletion ==
    (variant = "tokio" /\ o_kind = "drop" /\ Undecided(o_at) /\ c_at = "none") =>
        /\ cut = 0
        /\ w_pc # "panicked"
        /\ w_pc = "done" => fired = 1

\* C15 (tokio_impl): a wait() made after an earlier wait() has returned is
\* not stuck once the worker task is over: its recv() is ready to return.
C15_SecondWaitReturns ==
    (variant = "tokio" /\ o_kind = "wait" /\ o_pc = "recv" /\ n_wait >= 1
        /\ Terminal(w_pc)) => ENABLED WaitRecv

\* C15 witness: a second wait() has returned after the first one had taken
\* the completion signal.
C15_Witness ==
    /\ variant = "tokio" /\ o_kind = "wait" /\ Returned /\ n_wait = 2
    /\ w_pc = "done" /\ done_chan = 0 /\ fired = 1

\* C16 (both variants): the worker does not own the queue lock while it
\* sleeps or waits on a segment, so a call issued meanwhile gets the lock.
C16_LockNotHeldInWait ==
    w_pc = "wait" =>
        /\ lock # "worker"
        /\ o_pc = "lock" => LockAvailable

\* C17 (both variants): once the queue is empty it stays empty, and the
\* completion action is invoked at most once.
C17_EmptyAbsorbing ==
    /\ [][durations = <<>> => durations' = <<>>]_vars
    /\ [](fired <= 1)

\* C17 witness: an add() issued while the worker waited on its last segment
\* found the queue empty and was rejected; the action then ran once.
C17_Witness ==
    /\ o_kind = "add" /\ Returned /\ o_at = "wait" /\ o_ret = "already"
    /\ c_at = "none" /\ durations = <<>> /\ fired = 1

\* The timer is pending: no fire decision yet and no cancel() call.
Pending == Undecided(w_pc) /\ c_at = "none"

\* C18 as stated (both variants): while the timer is pending the queue is
\* non-empty.
C18_NonEmptyWhilePending ==
    Pending => durations # <<>>

\* C18 as amended (both variants): while the timer is pending the queue is
\* non-empty until the worker has popped the zero-length anchor, its last
\* pop; an empty queue of a pending timer means the anchor was popped.
C18_NonEmptyUntilAnchorPopped ==
    Pending =>
        /\ durations = <<>> => w_dur = 0
        /\ (w_pc = "wait" /\ w_dur > 0) => durations # <<>>

\* C18 witness: a pending timer with a non-zero delay whose worker waits on
\* the anchor: the queue is empty before the fire decision.
C18_Witness ==
    /\ Pending /\ durations = <<>> /\ w_pc = "wait" /\ w_dur = 0
    /\ waited > 0

\* C19 (both variants): a non-empty queue has the zero-length anchor at its
\* bottom, every step that leaves the queue non-empty leaves its bottom
\* element in place, and the worker's last pop is the anchor.
C19_Anchor ==
    /\ [](durations # <<>> => durations[1] = 0)
    /\ []((w_pc = "wait" /\ durations = <<>>) => w_dur = 0)
    /\ [][durations' # <<>> =>
             (durations # <<>> /\ durations'[1] = durations[1])]_vars

\* C19 witness: sub() asked for more than the queue held and reduced it to
\* the anchor alone.
C19_Witness ==
    /\ o_kind = "sub" /\ Returned /\ o_arg > Sum(o_pre)
    /\ Len(o_pre) >= 2 /\ o_post = <<0>> /\ durations = <<0>>

\* C20 (tokio_impl): the worker never panics on its sends, and a segment
\* wait is cut short only after cancel() has been called.
C20_NoPanic ==
    variant = "tokio" =>
        /\ w_pc # "panicked"
        /\ cut > 0 => c_at # "none"

====
